---- MODULE Spec2Model ----
(***************************************************************************)
(* AX-VideoCapture: the capture session engine of                          *)
(* src/src/msw/AX-VideoCaptureMSWImpl.h and its facade                     *)
(* src/src/AX-VideoCapture.h, as a state machine.                          *)
(*                                                                         *)
(* Execution contexts:                                                     *)
(*   "main"   the cooperative main queue (app::App::dispatchAsync) and the *)
(*            consumer's lifecycle calls Create/Start/Stop/destroy;        *)
(*   "event"  the backend thread that calls Capture::Impl::OnEvent;        *)
(*   capture  the backend thread that calls Capture::Impl::OnSample;       *)
(*   poll     the consumer's GetSurface/GetTexture polling;                *)
(*   "notify" the platform device-change thread (OnDeviceNotify).          *)
(***************************************************************************)
EXTENDS Integers, Sequences, FiniteSets, TLC

\* ---- bounds of the model ----
MaxDevices == 2     \* device ids 1..MaxDevices
MaxFrames  == 2     \* distinct frame ids; the ids of successive samples cycle
MaxCalls   == 2     \* consumer Start()/Stop() calls
MaxErrors  == 1     \* error events the backend reports
MaxHotplug == 1     \* device arrivals/removals
MaxLeases  == 2     \* FrameLeases the consumer holds at once
MaxOthers  == 1     \* further sessions of the process
MaxBytes   == 2     \* largest capacity of a configured surface, in model bytes
MaxCopies  == 4     \* samples copied into the surfaces
MaxText    == 3     \* distinct non-empty strings for a descriptor's Name and ID
MaxLists   == 2     \* consumer calls of Capture::GetDevices

\* ---- program constants ----
NoDevice == 0       \* Format's default DeviceDescriptor: empty ID
NullSurface == 0    \* a null Surface8uRef / a texture nobody has copied into

Devices == 1..MaxDevices
Slots   == {0, 1}
Threads == {"main", "event"}
Status  == {"MF_E_VIDEO_RECORDING_DEVICE_INVALIDATED", "E_OTHER"}
\* Owners of a session object: 0 is the session modelled in full.
Owners  == 0..MaxOthers
\* How InteropContext::InteropContext ends: with device and interop handle,
\* with a device but no interop handle, or bailed out before the device.
Interops == {"ok", "no_handle", "no_device"}

VARIABLES
    \* Device Registry
    present,            \* devices the backend enumerates now
    kCaptureDevices,    \* the cached enumeration
    devEmitted,         \* DeviceAdded/DeviceRemoved emissions, with their thread
    hotplugs,           \* device changes so far
    \* process-wide capture state
    kNumMediaFoundationInstances,   \* live session objects
    kInteropContext,    \* the GPU interop context: NoContext or [by, device, handle]
    others,             \* further live sessions of the process
    \* Capture session (Capture + Capture::Impl)
    sess,               \* "none" | "live" | "destroyed"
    format,             \* [hw, auto]
    isInitialized, isStarted, hasNewFrame,
    readIndex, writeIndex,
    surfaces,           \* _surfaces[2]: frame held, NullSurface when null
    sharedTextures,     \* _sharedTextures[2]: [alloc, frame, locked]
    \* threads
    pc,                 \* position of "main" and "event" inside Start/Stop
    capPc, capSlot, capTmp,   \* OnSample: position, slot being written, swap temporary
    reading, readSlot,  \* the consumer is using the surface GetSurface returned
    leases,             \* live FrameLeases per slot
    queue,              \* tasks dispatched to the main queue, oldest first
    \* Capture Backend
    evInitPending,      \* MF_CAPTURE_ENGINE_INITIALIZED still to be delivered
    bePending,          \* preview confirmations still to be delivered
    previewing,         \* the engine is streaming samples
    cmdLog,             \* StartPreview/StopPreview commands received
    lostReports,        \* device-invalidated reports made to OnEvent
    \* history
    emitted,            \* session signals emitted: [sig, arg, thread, alive]
    lastFrame,          \* id of the latest sample delivered
    calls, errs,
    lastCall,           \* how the consumer's last Start/Stop call ended
    swappedSince,       \* a sample was written and swapped in since the last getter
    quietGets,          \* getter calls since the last OnSample step (2: two or more)
    lastRet,            \* <<slot, frame>> the last getter returned
    assertFailed,       \* an assert of SharedTexture::Lock/Unlock failed
    lastList,           \* the last Capture::GetDevices call: [refresh, queried, result]
    lastLease,          \* the last FrameLease made: [slot, texture, locked, valid]
    lastCreate,         \* the last construction: what it met and how it ended
    \* camera controls
    ksSupport,          \* the camera: how each property answers InitState's queries
    ksValue,            \* the camera: the current value of each property
    controls,           \* Capture::_controls with each control's cached _value
    lastControl,        \* the last SetValue/LoadValue: [op, key, arg, ok]
    \* DeviceDescriptor
    compared,           \* the last two descriptors compared and what ==, < answered
    \* the device-change notification thread
    notify,             \* DispatchDeviceChangeSignals in progress: [pc, todo, previous]
    \* software surfaces
    sizeBytes,          \* capacity of a surface of the configured size
    capacity,           \* capacity of each slot's surface, 0 when the slot is empty
    allocs,             \* Surface::create calls made for each slot
    lastCopy,           \* the memcpy calls: [n, len, cap, lens]
    \* the GL side of the shared textures
    glCurrent,          \* a GL context is current on the thread that destroys
    interopCalls        \* wglDX calls made by the shared textures' destructors

processVars  == <<kNumMediaFoundationInstances, kInteropContext, others>>
registryVars == <<present, kCaptureDevices, devEmitted, hotplugs, processVars>>
sessionVars  == <<sess, format, isInitialized, isStarted, hasNewFrame,
                  readIndex, writeIndex, surfaces, sharedTextures>>
threadVars   == <<pc, capPc, capSlot, capTmp, reading, readSlot, leases, queue>>
backendVars  == <<evInitPending, bePending, previewing, cmdLog, lostReports>>

LostReported == lostReports > 0
callHistory  == <<lastList, lastLease, lastCreate>>
historyVars  == <<emitted, lastFrame, calls, errs, lastCall, swappedSince, quietGets,
                  lastRet, assertFailed, callHistory>>
controlVars  == <<ksSupport, ksValue, controls, lastControl>>
descVars     == <<compared>>
notifyVars   == <<notify>>
bufferVars   == <<sizeBytes, capacity, allocs, lastCopy>>
glVars       == <<glCurrent, interopCalls>>
vars == <<registryVars, sessionVars, threadVars, backendVars, historyVars, controlVars,
          descVars, notifyVars, bufferVars, glVars>>

\* ------------------------------------------------------------------------
\* Device Registry
\* ------------------------------------------------------------------------

\* MFEnumDeviceSources: the devices present, in the backend's order.
Enumerate(S) ==
    CHOOSE s \in [1..Cardinality(S) -> S] :
        \A i, j \in 1..Cardinality(S) : i < j => s[i] < s[j]

InSeq(x, s) == \E i \in 1..Len(s) : s[i] = x

\* Capture::Impl::GetDevices asking the backend whatever the cache holds.
Queried_Always(cache, refresh) == TRUE

\* Capture::Impl::GetDevices: if ( kCaptureDevices.empty ( ) || refresh )
Queried(cache, refresh) == cache = <<>> \/ refresh

\* Capture::Impl::GetDevices: the cache after the call (also its result).
GetDevices(cache, refresh, devs) ==
    IF Queried(cache, refresh) THEN Enumerate(devs) ELSE cache

Emit(log, sig, arg, thread) ==
    Append(log, [sig |-> sig, arg |-> arg, thread |-> thread, alive |-> sess = "live"])

\* The emissions DispatchDeviceChangeSignals makes, on the calling thread.
DiffSignals(previous, current, thread) ==
    LET removed == SelectSeq(previous, LAMBDA p : ~InSeq(p, current))
        added   == SelectSeq(current, LAMBDA c : ~InSeq(c, previous))
    IN  [i \in 1..Len(removed) |->
            [sig |-> "DeviceRemoved", arg |-> removed[i], thread |-> thread]]
        \o
        [i \in 1..Len(added) |->
            [sig |-> "DeviceAdded", arg |-> added[i], thread |-> thread]]

\* DispatchDeviceChangeSignals, run on `thread` with `devs` present.
DispatchDeviceChangeSignals(devs, thread) ==
    LET previous == GetDevices(kCaptureDevices, FALSE, devs)
        current  == GetDevices(previous, TRUE, devs)
    IN  /\ kCaptureDevices' = current
        /\ devEmitted' = devEmitted \o DiffSignals(previous, current, thread)

\* Capture::GetDevices called by the consumer.
ListDevices(refresh) ==
    /\ sess # "crashed"
    /\ pc["main"] = "idle"
    /\ lastList.n < MaxLists
    /\ kCaptureDevices' = GetDevices(kCaptureDevices, refresh, present)
    /\ lastList' = [n |-> lastList.n + 1, refresh |-> refresh,
                    queried |-> Queried(kCaptureDevices, refresh),
                    result |-> kCaptureDevices']
    /\ UNCHANGED <<present, devEmitted, hotplugs, processVars>>
    /\ UNCHANGED <<sessionVars, threadVars, backendVars>>
    /\ UNCHANGED <<emitted, lastFrame, calls, errs, lastCall, swappedSince, quietGets,
                   lastRet, assertFailed, lastLease, lastCreate>>
    /\ UNCHANGED <<controlVars, descVars, notifyVars, bufferVars, glVars>>

\* A device arrives or leaves; the platform calls OnDeviceNotify, which runs
\* DispatchDeviceChangeSignals on the notification thread.
OnDeviceNotify(d) ==
    /\ sess # "crashed"
    /\ hotplugs < MaxHotplug
    /\ hotplugs' = hotplugs + 1
    /\ present' = IF d \in present THEN present \ {d} ELSE present \cup {d}
    /\ DispatchDeviceChangeSignals(present', "notify")
    /\ UNCHANGED <<processVars, sessionVars, threadVars, backendVars, historyVars>>
    /\ UNCHANGED <<controlVars, descVars, notifyVars, bufferVars, glVars>>

\* DispatchDeviceChangeSignals is not running.
NotifyIdle == [pc |-> "idle", todo |-> <<>>, previous |-> <<>>]

\* The same notification taken statement by statement, for what another
\* thread can see of kCaptureDevices meanwhile: nothing guards the cache.
\* OnDeviceNotify up to `auto previous = GetDevices ( );`
Notify_Begin(d) ==
    /\ sess # "crashed"
    /\ hotplugs < MaxHotplug
    /\ notify.pc = "idle"
    /\ hotplugs' = hotplugs + 1
    /\ present' = IF d \in present THEN present \ {d} ELSE present \cup {d}
    /\ kCaptureDevices' = GetDevices(kCaptureDevices, FALSE, present')
    /\ notify' = [pc |-> "clear", todo |-> <<>>, previous |-> kCaptureDevices']
    /\ UNCHANGED <<devEmitted, processVars, sessionVars, threadVars, backendVars,
                   historyVars>>
    /\ UNCHANGED <<controlVars, descVars, bufferVars, glVars>>

\* GetDevices ( true ): kCaptureDevices.clear ( ) and the backend's answer.
Notify_Clear ==
    /\ notify.pc = "clear"
    /\ kCaptureDevices' = <<>>
    /\ notify' = [notify EXCEPT !.pc = "push", !.todo = Enumerate(present)]
    /\ UNCHANGED <<present, devEmitted, hotplugs, processVars, sessionVars,
                   threadVars, backendVars, historyVars>>
    /\ UNCHANGED <<controlVars, descVars, bufferVars, glVars>>

\* GetDevices ( true ): one kCaptureDevices.push_back of the loop.
Notify_Push ==
    /\ notify.pc = "push"
    /\ notify.todo # <<>>
    /\ kCaptureDevices' = Append(kCaptureDevices, Head(notify.todo))
    /\ notify' = [notify EXCEPT !.todo = Tail(notify.todo)]
    /\ UNCHANGED <<present, devEmitted, hotplugs, processVars, sessionVars,
                   threadVars, backendVars, historyVars>>
    /\ UNCHANGED <<controlVars, descVars, bufferVars, glVars>>

\* The loop is over: the two lists are compared and the signals emitted.
Notify_End ==
    /\ notify.pc = "push"
    /\ notify.todo = <<>>
    /\ devEmitted' = devEmitted \o DiffSignals(notify.previous, kCaptureDevices, "notify")
    /\ notify' = NotifyIdle
    /\ UNCHANGED <<kCaptureDevices, present, hotplugs, processVars, sessionVars,
                   threadVars, backendVars, historyVars>>
    /\ UNCHANGED <<controlVars, descVars, bufferVars, glVars>>

Refreshing == (\E d \in Devices : Notify_Begin(d)) \/ Notify_Clear \/ Notify_Push \/ Notify_End

\* ------------------------------------------------------------------------
\* DeviceDescriptor
\* ------------------------------------------------------------------------

\* Names and IDs are strings; the model takes them from 0..MaxText in their
\* order, 0 being the empty string.
Texts == 0..MaxText
Descriptors == [Name : Texts, ID : Texts]
EmptyDescriptor == [Name |-> 0, ID |-> 0]

\* DeviceDescriptor::operator ==
Equal(a, b) == a.Name = b.Name /\ a.ID = b.ID

\* DeviceDescriptor::operator <
Less(a, b) == a.Name < b.Name /\ a.ID < b.ID

\* What a caller learns from comparing a with b.
Comparison(a, b) ==
    [a |-> a, b |-> b, lt |-> Less(a, b), gt |-> Less(b, a), eq |-> Equal(a, b)]

Compare(a, b) ==
    /\ compared' = Comparison(a, b)
    /\ UNCHANGED <<registryVars, sessionVars, threadVars, backendVars, historyVars,
                   controlVars, notifyVars, bufferVars, glVars>>

\* ------------------------------------------------------------------------
\* Camera controls
\* ------------------------------------------------------------------------

\* Two of the twelve properties the constructor looks up.
Keys == {"Brightness", "Zoom"}

\* How a camera answers InitState for one property: both queries and the
\* read succeed, the basic-support query fails, the default-values query
\* fails, or only the read of the current value fails.
Outcomes == {"ok", "no_basic", "no_default", "no_read"}

\* The range the camera reports for a property, and the values a consumer
\* may ask for: the range and one value on either side of it.
DeviceMin == 0
DeviceMax == 1
Requests == (DeviceMin - 1)..(DeviceMax + 1)

\* videoControl.Value before the KSPROPERTY_TYPE_GET call.
Unread == -1

\* What the camera keeps of a value written to it.
Clamp(v) == IF v < DeviceMin THEN DeviceMin ELSE IF v > DeviceMax THEN DeviceMax ELSE v

\* Control::_value and _isSupported as the Control constructor leaves them.
NoControl == [listed |-> FALSE, supported |-> FALSE, value |-> 0]

\* ControlMSW::LoadValue: the value read, or the request's initial value when
\* the read fails; the result is stored in _value either way.
LoadValue(devValue, readOk) == IF readOk THEN devValue ELSE Unread

\* ControlMSW::StoreValue: _value is assigned before the write and not
\* touched after it.
StoreValue(value, writeOk) == value

\* The camera after a KSPROPERTY_TYPE_SET of value.
DeviceAfterSet(devValue, value, writeOk) == IF writeOk THEN Clamp(value) ELSE devValue

\* InitState with _isSupported set as soon as the basic-support query answers.
InitState_Early(support, devValue) ==
    IF support = "no_basic"
    THEN [supported |-> FALSE, value |-> 0]
    ELSE [supported |-> TRUE,
          value |-> IF support = "no_default" THEN 0
                    ELSE LoadValue(devValue, support # "no_read")]

\* ControlMSW::InitState: bail out when either query fails, otherwise read
\* the value and mark the control supported.
InitState(support, devValue) ==
    IF support \in {"no_basic", "no_default"}
    THEN [supported |-> FALSE, value |-> 0]
    ELSE [supported |-> TRUE, value |-> LoadValue(devValue, support # "no_read")]

\* The loop of Impl::Impl over the properties: a control is pushed to
\* _owner._controls when InitState left it supported.
MakeControls ==
    [k \in Keys |->
        LET ctrl == InitState(ksSupport[k], ksValue[k])
        IN  IF ctrl.supported
            THEN [listed |-> TRUE, supported |-> ctrl.supported, value |-> ctrl.value]
            ELSE NoControl]

NoControls == [k \in Keys |-> NoControl]

\* ------------------------------------------------------------------------
\* Construction and destruction
\* ------------------------------------------------------------------------

Task(kind, arg) == [kind |-> kind, arg |-> arg]

NoTexture == [alloc |-> FALSE, frame |-> NullSurface, locked |-> FALSE]

\* kInteropContext{ nullptr }
NoContext == [exists |-> FALSE, by |-> 0, device |-> FALSE, handle |-> FALSE]

\* OnCaptureCreated: kNumMediaFoundationInstances++
OnCaptureCreated(n) == n + 1

\* OnCaptureDestroyed deleting the interop context whenever a session goes.
OnCaptureDestroyed_Eager(n, ctx) == [count |-> n - 1, ctx |-> NoContext]

\* OnCaptureDestroyed: the count and the context after it.
OnCaptureDestroyed(n, ctx) ==
    [count |-> n - 1, ctx |-> IF n - 1 = 0 THEN NoContext ELSE ctx]

\* InteropContext::StaticInitialize, called by the construction of session
\* `by`, the constructor of a new context ending as `interop`.
StaticInitialize(ctx, by, interop) ==
    IF ctx.exists
    THEN ctx
    ELSE [exists |-> TRUE, by |-> by, device |-> interop # "no_device",
          handle |-> interop = "ok"]

\* InteropContext::CreateSharedTexture for both slots: the textures are valid
\* when the D3D textures are created and registered with the interop handle.
CreateSharedTexture(ctx, textureOk) == ctx.handle /\ textureOk

\* FindDeviceSource: the descriptor is among the enumerated devices and its
\* source activates.
FindDeviceSource(dev, devs, activateOk) == dev \in devs /\ activateOk

\* Capture::Capture and Capture::Impl::Impl for the session of owner `by`,
\* with ~Capture when Create finds the session invalid: how the construction
\* ended and what it left in the process-wide state.
Construct(by, hw, dev, engineOk, activateOk, interop, textureOk, initOk) ==
    LET listed   == GetDevices(kCaptureDevices, FALSE, present)
        device   == IF dev = NoDevice /\ listed # <<>> THEN listed[1] ELSE dev
        found    == engineOk /\ FindDeviceSource(device, present, activateOk)
        ctx      == IF found /\ hw
                    THEN StaticInitialize(kInteropContext, by, interop)
                    ELSE kInteropContext
        crash    == found /\ hw /\ ~ctx.device
        textures == hw => CreateSharedTexture(ctx, textureOk)
        failed   == IF ~engineOk THEN "engine"
                    ELSE IF ~found THEN "device"
                    ELSE IF crash THEN "interop"
                    ELSE IF ~textures THEN "textures"
                    ELSE IF ~initOk THEN "init"
                    ELSE "none"
        count    == OnCaptureCreated(kNumMediaFoundationInstances)
        after    == IF failed = "none"
                    THEN [count |-> count, ctx |-> ctx]
                    ELSE OnCaptureDestroyed(count, ctx)
    IN  [result |-> IF crash THEN "crash" ELSE IF failed = "none" THEN "valid" ELSE "null",
         failed |-> failed,
         cache  |-> IF engineOk THEN <<>> ELSE listed,
         count  |-> IF crash THEN count ELSE after.count,
         ctx    |-> IF crash THEN ctx ELSE after.ctx,
         interopValid |-> (found /\ hw) => (ctx.device /\ ctx.handle),
         allocated    |-> found /\ hw]

\* Capture::Create: Capture::Capture lists the devices and defaults the
\* device, Impl::Impl creates the engine, resolves the device with
\* FindDeviceSource (which clears the cached list), sets up the interop
\* context and allocates the shared textures in hardware mode, and
\* initialises the engine.  An invalid session is released before Create
\* returns null.  A hardware construction whose interop context has no D3D
\* device dereferences the null device in SharedTexture::SharedTexture.
Create(hw, auto, dev, engineOk, activateOk, interop, textureOk, initOk) ==
    /\ sess = "none"
    /\ pc["main"] = "idle"
    /\ LET made == Construct(0, hw, dev, engineOk, activateOk, interop, textureOk, initOk)
       IN  /\ kCaptureDevices' = made.cache
           /\ kNumMediaFoundationInstances' = made.count
           /\ kInteropContext' = made.ctx
           /\ lastCreate' = [hw |-> hw, failed |-> made.failed, result |-> made.result,
                             interopValid |-> made.interopValid,
                             allocated |-> made.allocated]
           /\ CASE made.result = "valid" ->
                     /\ sess' = "live"
                     /\ format' = [hw |-> hw, auto |-> auto]
                     /\ sharedTextures' =
                          [s \in Slots |-> [NoTexture EXCEPT !.alloc = hw]]
                     /\ evInitPending' = TRUE
                     /\ controls' = MakeControls
                [] made.result = "crash" ->
                     /\ sess' = "crashed"
                     /\ UNCHANGED <<format, sharedTextures, evInitPending, controls>>
                [] OTHER ->
                     UNCHANGED <<sess, format, sharedTextures, evInitPending, controls>>
    /\ UNCHANGED <<ksSupport, ksValue, lastControl, descVars, notifyVars, bufferVars, glVars>>
    /\ UNCHANGED <<present, devEmitted, hotplugs, others>>
    /\ UNCHANGED <<isInitialized, isStarted, hasNewFrame, readIndex, writeIndex, surfaces>>
    /\ UNCHANGED <<threadVars, bePending, previewing, cmdLog, lostReports>>
    /\ UNCHANGED <<emitted, lastFrame, calls, errs, lastCall, swappedSince, quietGets,
                   lastRet, assertFailed, lastList, lastLease>>

\* ~SharedTexture making its wglDX calls whether or not a GL context is
\* current.
DestroyTexture_Unconditional(tex, s, gl) ==
    IF tex.alloc
    THEN (IF tex.locked THEN <<[slot |-> s, call |-> "unlock"]>> ELSE <<>>)
         \o <<[slot |-> s, call |-> "unregister"]>>
    ELSE <<>>

\* SharedTexture::~SharedTexture for the texture of slot s: with a share
\* handle and a current GL context, unlock if locked, then unregister.
DestroyTexture(tex, s, gl) ==
    IF tex.alloc /\ gl
    THEN (IF tex.locked THEN <<[slot |-> s, call |-> "unlock"]>> ELSE <<>>)
         \o <<[slot |-> s, call |-> "unregister"]>>
    ELSE <<>>

\* _sharedTextures[0].reset ( ); _sharedTextures[1].reset ( );
ReleaseTextures(textures, gl) ==
    DestroyTexture(textures[0], 0, gl) \o DestroyTexture(textures[1], 1, gl)

\* A destructor that stops the preview before releasing the engine.
Destroy_Stopping ==
    /\ sess = "live"
    /\ pc["main"] = "idle" /\ pc["event"] = "idle" /\ capPc = "idle"
    /\ ~reading
    /\ \A s \in Slots : leases[s] = 0
    /\ sess' = "destroyed"
    /\ hasNewFrame' = FALSE
    /\ sharedTextures' = [s \in Slots |-> NoTexture]
    /\ LET after == OnCaptureDestroyed(kNumMediaFoundationInstances, kInteropContext)
       IN  /\ kNumMediaFoundationInstances' = after.count
           /\ kInteropContext' = after.ctx
    /\ evInitPending' = FALSE
    /\ bePending' = <<>>
    /\ previewing' = FALSE
    /\ controls' = NoControls
    /\ UNCHANGED <<ksSupport, ksValue, lastControl, descVars, notifyVars, bufferVars,
                   glCurrent>>
    /\ interopCalls' = ReleaseTextures(sharedTextures, glCurrent)
    /\ UNCHANGED <<present, kCaptureDevices, devEmitted, hotplugs, others>>
    /\ UNCHANGED <<format, isInitialized, isStarted, readIndex,
                   writeIndex, surfaces, threadVars, lostReports, historyVars>>
    /\ cmdLog' = Append(cmdLog, "stop")

\* ~Impl decrementing the session count without releasing its textures.
Destroy_KeepingTextures ==
    /\ sess = "live"
    /\ pc["main"] = "idle" /\ pc["event"] = "idle" /\ capPc = "idle"
    /\ ~reading
    /\ \A s \in Slots : leases[s] = 0
    /\ sess' = "destroyed"
    /\ hasNewFrame' = FALSE
    /\ UNCHANGED sharedTextures
    /\ LET after == OnCaptureDestroyed(kNumMediaFoundationInstances, kInteropContext)
       IN  /\ kNumMediaFoundationInstances' = after.count
           /\ kInteropContext' = after.ctx
    /\ evInitPending' = FALSE
    /\ bePending' = <<>>
    /\ previewing' = FALSE
    /\ controls' = NoControls
    /\ UNCHANGED <<ksSupport, ksValue, lastControl, descVars, notifyVars, bufferVars,
                   glCurrent>>
    /\ interopCalls' = ReleaseTextures(sharedTextures, glCurrent)
    /\ UNCHANGED <<present, kCaptureDevices, devEmitted, hotplugs, others>>
    /\ UNCHANGED <<format, isInitialized, isStarted, readIndex,
                   writeIndex, surfaces, threadVars, cmdLog, lostReports, historyVars>>

\* Capture::~Capture -> Impl::~Impl, from the main thread, with the backend's
\* callbacks returned and no surface or lease in use.
Destroy ==
    /\ sess = "live"
    /\ pc["main"] = "idle" /\ pc["event"] = "idle" /\ capPc = "idle"
    /\ ~reading
    /\ \A s \in Slots : leases[s] = 0
    /\ sess' = "destroyed"
    /\ hasNewFrame' = FALSE
    /\ sharedTextures' = [s \in Slots |-> NoTexture]
    /\ LET after == OnCaptureDestroyed(kNumMediaFoundationInstances, kInteropContext)
       IN  /\ kNumMediaFoundationInstances' = after.count
           /\ kInteropContext' = after.ctx
    /\ evInitPending' = FALSE
    /\ bePending' = <<>>
    /\ previewing' = FALSE
    /\ controls' = NoControls
    /\ UNCHANGED <<ksSupport, ksValue, lastControl, descVars, notifyVars, bufferVars,
                   glCurrent>>
    /\ interopCalls' = ReleaseTextures(sharedTextures, glCurrent)
    /\ UNCHANGED <<present, kCaptureDevices, devEmitted, hotplugs, others>>
    /\ UNCHANGED <<format, isInitialized, isStarted, readIndex,
                   writeIndex, surfaces, threadVars, cmdLog, lostReports, historyVars>>

\* Capture::Create for a further session of the process.  A construction
\* that crashes ends the process and every thread of it.
CreateOther(id, hw, dev, engineOk, activateOk, interop, textureOk, initOk) ==
    /\ sess # "crashed"
    /\ pc["main"] = "idle"
    /\ id \in Owners \ ({0} \cup others)
    /\ LET made == Construct(id, hw, dev, engineOk, activateOk, interop, textureOk, initOk)
       IN  /\ kCaptureDevices' = made.cache
           /\ kNumMediaFoundationInstances' = made.count
           /\ kInteropContext' = made.ctx
           /\ lastCreate' = [hw |-> hw, failed |-> made.failed, result |-> made.result,
                             interopValid |-> made.interopValid,
                             allocated |-> made.allocated]
           /\ others' = IF made.result = "valid" THEN others \cup {id} ELSE others
           /\ IF made.result = "crash"
              THEN /\ sess' = "crashed"
                   /\ pc' = [t \in Threads |-> "idle"]
                   /\ capPc' = "idle"
                   /\ reading' = FALSE
                   /\ leases' = [s \in Slots |-> 0]
                   /\ queue' = <<>>
              ELSE UNCHANGED <<sess, pc, capPc, reading, leases, queue>>
    /\ UNCHANGED <<present, devEmitted, hotplugs>>
    /\ UNCHANGED <<format, isInitialized, isStarted, hasNewFrame, readIndex, writeIndex,
                   surfaces, sharedTextures, capSlot, capTmp, readSlot, backendVars>>
    /\ UNCHANGED <<emitted, lastFrame, calls, errs, lastCall, swappedSince, quietGets,
                   lastRet, assertFailed, lastList, lastLease>>
    /\ UNCHANGED <<controlVars, descVars, notifyVars, bufferVars, glVars>>

\* Capture::~Capture -> Impl::~Impl of a further session.
DestroyOther(id) ==
    /\ sess # "crashed"
    /\ pc["main"] = "idle"
    /\ id \in others
    /\ others' = others \ {id}
    /\ LET after == OnCaptureDestroyed(kNumMediaFoundationInstances, kInteropContext)
       IN  /\ kNumMediaFoundationInstances' = after.count
           /\ kInteropContext' = after.ctx
    /\ UNCHANGED <<present, kCaptureDevices, devEmitted, hotplugs>>
    /\ UNCHANGED <<sessionVars, threadVars, backendVars, historyVars>>
    /\ UNCHANGED <<controlVars, descVars, notifyVars, bufferVars, glVars>>

\* ------------------------------------------------------------------------
\* Start and Stop
\* ------------------------------------------------------------------------

Goto(t, where) == pc' = [pc EXCEPT ![t] = where]

\* The call returns on thread t; a consumer call's outcome is remembered.
Return(t, outcome) ==
    /\ Goto(t, "idle")
    /\ lastCall' = IF t = "main" THEN outcome ELSE lastCall

HistoryButCall == <<emitted, lastFrame, calls, errs, swappedSince, quietGets, lastRet,
                    assertFailed, callHistory>>

\* IMFCaptureEngine::StartPreview: the engine confirms with PREVIEW_STARTED
\* unless the device is gone.
StartPreview ==
    /\ cmdLog' = Append(cmdLog, "start")
    /\ IF LostReported
       THEN UNCHANGED <<bePending, previewing>>
       ELSE /\ bePending' = Append(bePending, "PREVIEW_STARTED")
            /\ previewing' = TRUE

\* IMFCaptureEngine::StopPreview
StopPreview ==
    /\ cmdLog' = Append(cmdLog, "stop")
    /\ IF LostReported
       THEN UNCHANGED <<bePending, previewing>>
       ELSE /\ bePending' = Append(bePending, "PREVIEW_STOPPED")
            /\ previewing' = FALSE

\* The consumer calls Capture::Start.
CallStart ==
    /\ sess = "live"
    /\ pc["main"] = "idle"
    /\ calls < MaxCalls
    /\ calls' = calls + 1
    /\ Goto("main", "Start_init")
    /\ UNCHANGED <<registryVars, sessionVars, capPc, capSlot, capTmp, reading,
                   readSlot, leases, queue, backendVars>>
    /\ UNCHANGED <<emitted, lastFrame, errs, lastCall, swappedSince, quietGets, lastRet,
                   assertFailed, callHistory>>
    /\ UNCHANGED <<controlVars, descVars, notifyVars, bufferVars, glVars>>

\* Start without the latch check.
Start_Unlatched(t) ==
    /\ pc[t] = "Start_init"
    /\ Goto(t, "Start_started")
    /\ UNCHANGED <<registryVars, sessionVars, capPc, capSlot, capTmp, reading,
                   readSlot, leases, queue, backendVars, historyVars>>
    /\ UNCHANGED <<controlVars, descVars, notifyVars, bufferVars, glVars>>

\* Start: if ( !_isInitialized ) return;
Start_CheckInitialized(t) ==
    /\ pc[t] = "Start_init"
    /\ IF isInitialized
       THEN Goto(t, "Start_started") /\ UNCHANGED lastCall
       ELSE Return(t, "Start_uninitialized")
    /\ UNCHANGED <<registryVars, sessionVars, capPc, capSlot, capTmp, reading,
                   readSlot, leases, queue, backendVars, HistoryButCall>>
    /\ UNCHANGED <<controlVars, descVars, notifyVars, bufferVars, glVars>>

\* Start without the already-started check.
Start_Unchecked(t) ==
    /\ pc[t] = "Start_started"
    /\ Goto(t, "Start_store")
    /\ UNCHANGED <<registryVars, sessionVars, capPc, capSlot, capTmp, reading,
                   readSlot, leases, queue, backendVars, historyVars>>
    /\ UNCHANGED <<controlVars, descVars, notifyVars, bufferVars, glVars>>

\* Start: if ( IsStarted ( ) ) return;
Start_CheckStarted(t) ==
    /\ pc[t] = "Start_started"
    /\ IF isStarted
       THEN Return(t, "Start_already")
       ELSE Goto(t, "Start_store") /\ UNCHANGED lastCall
    /\ UNCHANGED <<registryVars, sessionVars, capPc, capSlot, capTmp, reading,
                   readSlot, leases, queue, backendVars, HistoryButCall>>
    /\ UNCHANGED <<controlVars, descVars, notifyVars, bufferVars, glVars>>

\* Start: _isStarted.store ( true );
Start_Store(t) ==
    /\ pc[t] = "Start_store"
    /\ isStarted' = TRUE
    /\ Goto(t, "Start_cmd")
    /\ UNCHANGED <<registryVars, sess, format, isInitialized, hasNewFrame, readIndex,
                   writeIndex, surfaces, sharedTextures, capPc, capSlot, capTmp,
                   reading, readSlot, leases, queue, backendVars, historyVars>>
    /\ UNCHANGED <<controlVars, descVars, notifyVars, bufferVars, glVars>>

\* Start: _captureEngine->StartPreview ( )
Start_Preview(t) ==
    /\ pc[t] = "Start_cmd"
    /\ StartPreview
    /\ Return(t, "Start_issued")
    /\ UNCHANGED <<registryVars, sessionVars, capPc, capSlot, capTmp, reading,
                   readSlot, leases, queue, evInitPending, lostReports, HistoryButCall>>
    /\ UNCHANGED <<controlVars, descVars, notifyVars, bufferVars, glVars>>

\* The consumer calls Capture::Stop.
CallStop ==
    /\ sess = "live"
    /\ pc["main"] = "idle"
    /\ calls < MaxCalls
    /\ calls' = calls + 1
    /\ Goto("main", "Stop_check")
    /\ UNCHANGED <<registryVars, sessionVars, capPc, capSlot, capTmp, reading,
                   readSlot, leases, queue, backendVars>>
    /\ UNCHANGED <<emitted, lastFrame, errs, lastCall, swappedSince, quietGets, lastRet,
                   assertFailed, callHistory>>
    /\ UNCHANGED <<controlVars, descVars, notifyVars, bufferVars, glVars>>

\* Stop: if ( IsStopped ( ) ) return;
Stop_CheckStopped ==
    /\ pc["main"] = "Stop_check"
    /\ IF ~isStarted
       THEN Return("main", "Stop_already")
       ELSE Goto("main", "Stop_store") /\ UNCHANGED lastCall
    /\ UNCHANGED <<registryVars, sessionVars, capPc, capSlot, capTmp, reading,
                   readSlot, leases, queue, backendVars, HistoryButCall>>
    /\ UNCHANGED <<controlVars, descVars, notifyVars, bufferVars, glVars>>

\* Stop: _isStarted.store ( false );
Stop_Store ==
    /\ pc["main"] = "Stop_store"
    /\ isStarted' = FALSE
    /\ Goto("main", "Stop_cmd")
    /\ UNCHANGED <<registryVars, sess, format, isInitialized, hasNewFrame, readIndex,
                   writeIndex, surfaces, sharedTextures, capPc, capSlot, capTmp,
                   reading, readSlot, leases, queue, backendVars, historyVars>>
    /\ UNCHANGED <<controlVars, descVars, notifyVars, bufferVars, glVars>>

\* Stop: _captureEngine->StopPreview ( )
Stop_Preview ==
    /\ pc["main"] = "Stop_cmd"
    /\ StopPreview
    /\ Return("main", "Stop_issued")
    /\ UNCHANGED <<registryVars, sessionVars, capPc, capSlot, capTmp, reading,
                   readSlot, leases, queue, evInitPending, lostReports, HistoryButCall>>
    /\ UNCHANGED <<controlVars, descVars, notifyVars, bufferVars, glVars>>

\* ------------------------------------------------------------------------
\* OnEvent, on the backend's event thread (one event at a time)
\* ------------------------------------------------------------------------

\* dispatchAsync putting the task ahead of the tasks already queued.
DispatchAsync_Front(task) == queue' = <<task>> \o queue

\* app::App::get ( )->dispatchAsync ( task )
DispatchAsync(task) == queue' = Append(queue, task)

EventThreadFree == sess = "live" /\ pc["event"] = "idle"

\* MF_CAPTURE_ENGINE_INITIALIZED handled without the auto-start.
OnEvent_Initialized_Manual(sinkOk) ==
    /\ EventThreadFree
    /\ evInitPending
    /\ evInitPending' = FALSE
    /\ IF sinkOk
       THEN /\ isInitialized' = TRUE
            /\ DispatchAsync(Task("Initialize", "none"))
       ELSE UNCHANGED <<isInitialized, queue>>
    /\ UNCHANGED <<registryVars, sess, format, isStarted, hasNewFrame, readIndex,
                   writeIndex, surfaces, sharedTextures, pc, capPc, capSlot, capTmp,
                   reading, readSlot, leases, bePending, previewing, cmdLog,
                   lostReports, historyVars>>
    /\ UNCHANGED <<controlVars, descVars, notifyVars, bufferVars, glVars>>

\* MF_CAPTURE_ENGINE_INITIALIZED, sent once in answer to Initialize.
OnEvent_Initialized(sinkOk) ==
    /\ EventThreadFree
    /\ evInitPending
    /\ evInitPending' = FALSE
    /\ IF sinkOk
       THEN /\ isInitialized' = TRUE
            /\ DispatchAsync(Task("Initialize", "none"))
            /\ Goto("event", IF format.auto THEN "Start_init" ELSE "idle")
       ELSE UNCHANGED <<isInitialized, queue, pc>>
    /\ UNCHANGED <<registryVars, sess, format, isStarted, hasNewFrame, readIndex,
                   writeIndex, surfaces, sharedTextures, capPc, capSlot, capTmp,
                   reading, readSlot, leases, bePending, previewing, cmdLog,
                   lostReports, historyVars>>
    /\ UNCHANGED <<controlVars, descVars, notifyVars, bufferVars, glVars>>

\* PREVIEW_STARTED handled by emitting OnStart on the event thread itself.
OnEvent_PreviewStarted_Direct ==
    /\ EventThreadFree
    /\ bePending # <<>> /\ Head(bePending) = "PREVIEW_STARTED"
    /\ bePending' = Tail(bePending)
    /\ emitted' = Emit(emitted, "Start", "none", "event")
    /\ UNCHANGED <<registryVars, sessionVars, threadVars, evInitPending, previewing,
                   cmdLog, lostReports>>
    /\ UNCHANGED <<lastFrame, calls, errs, lastCall, swappedSince, quietGets, lastRet,
                   assertFailed, callHistory>>
    /\ UNCHANGED <<controlVars, descVars, notifyVars, bufferVars, glVars>>

\* MF_CAPTURE_ENGINE_PREVIEW_STARTED
OnEvent_PreviewStarted ==
    /\ EventThreadFree
    /\ bePending # <<>> /\ Head(bePending) = "PREVIEW_STARTED"
    /\ bePending' = Tail(bePending)
    /\ DispatchAsync(Task("Start", "none"))
    /\ UNCHANGED <<registryVars, sessionVars, pc, capPc, capSlot, capTmp, reading,
                   readSlot, leases, evInitPending, previewing, cmdLog, lostReports,
                   historyVars>>
    /\ UNCHANGED <<controlVars, descVars, notifyVars, bufferVars, glVars>>

\* MF_CAPTURE_ENGINE_PREVIEW_STOPPED
OnEvent_PreviewStopped ==
    /\ EventThreadFree
    /\ bePending # <<>> /\ Head(bePending) = "PREVIEW_STOPPED"
    /\ bePending' = Tail(bePending)
    /\ DispatchAsync(Task("Stop", "none"))
    /\ UNCHANGED <<registryVars, sessionVars, pc, capPc, capSlot, capTmp, reading,
                   readSlot, leases, evInitPending, previewing, cmdLog, lostReports,
                   historyVars>>
    /\ UNCHANGED <<controlVars, descVars, notifyVars, bufferVars, glVars>>

\* MF_CAPTURE_ENGINE_ERROR with its status, reported by an initialised engine.
OnEvent_Error(status) ==
    /\ EventThreadFree
    /\ ~evInitPending
    /\ errs < MaxErrors
    /\ errs' = errs + 1
    /\ IF status = "MF_E_VIDEO_RECORDING_DEVICE_INVALIDATED"
       THEN /\ DispatchAsync(Task("DeviceLost", "none"))
            /\ lostReports' = lostReports + 1
            /\ previewing' = FALSE
       ELSE /\ DispatchAsync(Task("Error", status))
            /\ UNCHANGED <<lostReports, previewing>>
    /\ UNCHANGED <<registryVars, sessionVars, pc, capPc, capSlot, capTmp, reading,
                   readSlot, leases, evInitPending, bePending, cmdLog>>
    /\ UNCHANGED <<emitted, lastFrame, calls, lastCall, swappedSince, quietGets, lastRet,
                   assertFailed, callHistory>>
    /\ UNCHANGED <<controlVars, descVars, notifyVars, bufferVars, glVars>>

\* ------------------------------------------------------------------------
\* Tasks of the main queue
\* ------------------------------------------------------------------------

TaskReady(kind) ==
    /\ sess # "crashed"
    /\ pc["main"] = "idle"
    /\ queue # <<>>
    /\ Head(queue).kind = kind

\* [=] { _owner.OnInitialize.emit ( ); }
Task_Initialize ==
    /\ TaskReady("Initialize")
    /\ queue' = Tail(queue)
    /\ emitted' = Emit(emitted, "Initialize", "none", "main")
    /\ UNCHANGED <<registryVars, sessionVars, pc, capPc, capSlot, capTmp, reading,
                   readSlot, leases, backendVars>>
    /\ UNCHANGED <<lastFrame, calls, errs, lastCall, swappedSince, quietGets, lastRet,
                   assertFailed, callHistory>>
    /\ UNCHANGED <<controlVars, descVars, notifyVars, bufferVars, glVars>>

\* [=] { _owner.OnStart.emit ( ); }
Task_Start ==
    /\ TaskReady("Start")
    /\ queue' = Tail(queue)
    /\ emitted' = Emit(emitted, "Start", "none", "main")
    /\ UNCHANGED <<registryVars, sessionVars, pc, capPc, capSlot, capTmp, reading,
                   readSlot, leases, backendVars>>
    /\ UNCHANGED <<lastFrame, calls, errs, lastCall, swappedSince, quietGets, lastRet,
                   assertFailed, callHistory>>
    /\ UNCHANGED <<controlVars, descVars, notifyVars, bufferVars, glVars>>

\* [=] { _owner.OnStop.emit ( ); }
Task_Stop ==
    /\ TaskReady("Stop")
    /\ queue' = Tail(queue)
    /\ emitted' = Emit(emitted, "Stop", "none", "main")
    /\ UNCHANGED <<registryVars, sessionVars, pc, capPc, capSlot, capTmp, reading,
                   readSlot, leases, backendVars>>
    /\ UNCHANGED <<lastFrame, calls, errs, lastCall, swappedSince, quietGets, lastRet,
                   assertFailed, callHistory>>
    /\ UNCHANGED <<controlVars, descVars, notifyVars, bufferVars, glVars>>

\* The device-lost task calling Stop ( ) instead of only clearing the flag.
Task_DeviceLost_Stopping ==
    /\ TaskReady("DeviceLost")
    /\ queue' = Tail(queue)
    /\ isInitialized' = FALSE
    /\ isStarted' = FALSE
    /\ IF isStarted THEN StopPreview ELSE UNCHANGED <<cmdLog, bePending, previewing>>
    /\ emitted' = Emit(emitted, "DeviceLost", "none", "main")
    /\ UNCHANGED <<registryVars, sess, format, hasNewFrame, readIndex, writeIndex,
                   surfaces, sharedTextures, pc, capPc, capSlot, capTmp, reading,
                   readSlot, leases, evInitPending, lostReports>>
    /\ UNCHANGED <<lastFrame, calls, errs, lastCall, swappedSince, quietGets, lastRet,
                   assertFailed, callHistory>>
    /\ UNCHANGED <<controlVars, descVars, notifyVars, bufferVars, glVars>>

\* [=] { _isInitialized = false; _isStarted.store ( false ); _owner.OnDeviceLost.emit ( ); }
Task_DeviceLost ==
    /\ TaskReady("DeviceLost")
    /\ queue' = Tail(queue)
    /\ IF sess = "live"
       THEN isInitialized' = FALSE /\ isStarted' = FALSE
       ELSE UNCHANGED <<isInitialized, isStarted>>
    /\ emitted' = Emit(emitted, "DeviceLost", "none", "main")
    /\ UNCHANGED <<registryVars, sess, format, hasNewFrame, readIndex, writeIndex,
                   surfaces, sharedTextures, pc, capPc, capSlot, capTmp, reading,
                   readSlot, leases, backendVars>>
    /\ UNCHANGED <<lastFrame, calls, errs, lastCall, swappedSince, quietGets, lastRet,
                   assertFailed, callHistory>>
    /\ UNCHANGED <<controlVars, descVars, notifyVars, bufferVars, glVars>>

\* An Error task that also resets the session as the DeviceLost task does.
Task_Error_Resetting ==
    /\ TaskReady("Error")
    /\ queue' = Tail(queue)
    /\ isInitialized' = FALSE
    /\ isStarted' = FALSE
    /\ emitted' = Emit(emitted, "Error", Head(queue).arg, "main")
    /\ UNCHANGED <<registryVars, sess, format, hasNewFrame, readIndex, writeIndex,
                   surfaces, sharedTextures, pc, capPc, capSlot, capTmp, reading,
                   readSlot, leases, backendVars>>
    /\ UNCHANGED <<lastFrame, calls, errs, lastCall, swappedSince, quietGets, lastRet,
                   assertFailed, callHistory>>
    /\ UNCHANGED <<controlVars, descVars, notifyVars, bufferVars, glVars>>

\* [=] { _owner.OnError.emit ( status ); }
Task_Error ==
    /\ TaskReady("Error")
    /\ queue' = Tail(queue)
    /\ emitted' = Emit(emitted, "Error", Head(queue).arg, "main")
    /\ UNCHANGED <<registryVars, sessionVars, pc, capPc, capSlot, capTmp, reading,
                   readSlot, leases, backendVars>>
    /\ UNCHANGED <<lastFrame, calls, errs, lastCall, swappedSince, quietGets, lastRet,
                   assertFailed, callHistory>>
    /\ UNCHANGED <<controlVars, descVars, notifyVars, bufferVars, glVars>>

\* A task whose session is destroyed runs on a dangling this: besides acting
\* as above (emitting with alive = FALSE) it may have no effect at all.
Task_Dangling ==
    /\ pc["main"] = "idle"
    /\ queue # <<>>
    /\ sess = "destroyed"
    /\ queue' = Tail(queue)
    /\ UNCHANGED <<registryVars, sessionVars, pc, capPc, capSlot, capTmp, reading,
                   readSlot, leases, backendVars, historyVars>>
    /\ UNCHANGED <<controlVars, descVars, notifyVars, bufferVars, glVars>>

\* ------------------------------------------------------------------------
\* OnSample, on the backend's sample thread
\* ------------------------------------------------------------------------

\* Successive samples carry the frame ids 1, 2, .., MaxFrames, 1, ..
NextFrame(f) == (f % MaxFrames) + 1

SampleResults ==
    IF format.hw THEN {"ok", "no_buffer", "not_dxgi", "no_resource"}
                 ELSE {"ok", "no_buffer", "not_contiguous", "lock_failed"}

\* OnSample falling through to the swap when the buffer cannot be had.
OnSample_Begin_SwapOnDrop(res) ==
    /\ sess = "live"
    /\ previewing
    /\ capPc = "idle"
    /\ res \in SampleResults
    /\ lastFrame' = NextFrame(lastFrame)
    /\ quietGets' = 0
    /\ IF res = "ok"
       THEN /\ capPc' = "copy" /\ capSlot' = writeIndex
            /\ UNCHANGED <<readIndex, writeIndex>>
       ELSE /\ readIndex' = writeIndex /\ writeIndex' = readIndex
            /\ UNCHANGED <<capPc, capSlot>>
    /\ UNCHANGED <<registryVars, sess, format, isInitialized, isStarted, hasNewFrame,
                   surfaces, sharedTextures, pc, capTmp, reading, readSlot, leases,
                   queue, backendVars>>
    /\ UNCHANGED <<emitted, calls, errs, lastCall, swappedSince, lastRet, assertFailed, callHistory>>
    /\ UNCHANGED <<controlVars, descVars, notifyVars, bufferVars, glVars>>

\* OnSample up to the start of the copy into the write slot (CopyResource or
\* memcpy); a sample whose buffer cannot be had is dropped.
OnSample_Begin(res) ==
    /\ sess = "live"
    /\ previewing
    /\ capPc = "idle"
    /\ res \in SampleResults
    /\ lastFrame' = NextFrame(lastFrame)
    /\ quietGets' = 0
    /\ IF res = "ok"
       THEN capPc' = "copy" /\ capSlot' = writeIndex
       ELSE UNCHANGED <<capPc, capSlot>>
    /\ UNCHANGED <<registryVars, sessionVars, pc, capTmp, reading, readSlot, leases,
                   queue, backendVars>>
    /\ UNCHANGED <<emitted, calls, errs, lastCall, swappedSince, lastRet, assertFailed, callHistory>>
    /\ UNCHANGED <<controlVars, descVars, notifyVars, bufferVars, glVars>>

\* The copy waiting until the consumer has taken the last frame and holds
\* no lease on the write slot.
OnSample_Copy_Waiting ==
    /\ capPc = "copy"
    /\ leases[capSlot] = 0
    /\ ~hasNewFrame
    /\ IF format.hw
       THEN /\ sharedTextures' = [sharedTextures EXCEPT ![capSlot].frame = lastFrame]
            /\ UNCHANGED surfaces
       ELSE /\ surfaces' = [surfaces EXCEPT ![capSlot] = lastFrame]
            /\ UNCHANGED sharedTextures
    /\ capPc' = "swap"
    /\ quietGets' = 0
    /\ UNCHANGED <<registryVars, sess, format, isInitialized, isStarted, hasNewFrame,
                   readIndex, writeIndex, pc, capSlot, capTmp, reading, readSlot,
                   leases, queue, backendVars>>
    /\ UNCHANGED <<emitted, lastFrame, calls, errs, lastCall, swappedSince, lastRet,
                   assertFailed, callHistory>>
    /\ UNCHANGED <<controlVars, descVars, notifyVars, bufferVars, glVars>>

\* The copy completes: the write slot holds the sample's frame.
OnSample_Copy ==
    /\ capPc = "copy"
    /\ IF format.hw
       THEN /\ sharedTextures' = [sharedTextures EXCEPT ![capSlot].frame = lastFrame]
            /\ UNCHANGED surfaces
       ELSE /\ surfaces' = [surfaces EXCEPT ![capSlot] = lastFrame]
            /\ UNCHANGED sharedTextures
    /\ capPc' = "swap"
    /\ quietGets' = 0
    /\ UNCHANGED <<registryVars, sess, format, isInitialized, isStarted, hasNewFrame,
                   readIndex, writeIndex, pc, capSlot, capTmp, reading, readSlot,
                   leases, queue, backendVars>>
    /\ UNCHANGED <<emitted, lastFrame, calls, errs, lastCall, swappedSince, lastRet,
                   assertFailed, callHistory>>
    /\ UNCHANGED <<controlVars, descVars, notifyVars, bufferVars, glVars>>

\* std::swap ( _readIndex, _writeIndex ) on two plain ints: both are loaded
\* and one of the two stores lands first.
OnSample_SwapFirst(first) ==
    /\ capPc = "swap"
    /\ IF first = "read"
       THEN /\ capTmp' = readIndex
            /\ readIndex' = writeIndex
            /\ capPc' = "swap_write"
            /\ UNCHANGED writeIndex
       ELSE /\ capTmp' = writeIndex
            /\ writeIndex' = readIndex
            /\ capPc' = "swap_read"
            /\ UNCHANGED readIndex
    /\ quietGets' = 0
    /\ UNCHANGED <<registryVars, sess, format, isInitialized, isStarted, hasNewFrame,
                   surfaces, sharedTextures, pc, capSlot, reading, readSlot, leases,
                   queue, backendVars>>
    /\ UNCHANGED <<emitted, lastFrame, calls, errs, lastCall, swappedSince, lastRet,
                   assertFailed, callHistory>>
    /\ UNCHANGED <<controlVars, descVars, notifyVars, bufferVars, glVars>>

\* The second store of the swap lands and OnSample returns S_OK.
OnSample_SwapSecond ==
    /\ capPc \in {"swap_write", "swap_read"}
    /\ IF capPc = "swap_write"
       THEN writeIndex' = capTmp /\ UNCHANGED readIndex
       ELSE readIndex' = capTmp /\ UNCHANGED writeIndex
    /\ capPc' = "idle"
    /\ capSlot' = 0
    /\ capTmp' = 0
    /\ swappedSince' = TRUE
    /\ quietGets' = 0
    /\ UNCHANGED <<registryVars, sess, format, isInitialized, isStarted, hasNewFrame,
                   surfaces, sharedTextures, pc, reading, readSlot,
                   leases, queue, backendVars>>
    /\ UNCHANGED <<emitted, lastFrame, calls, errs, lastCall, lastRet, assertFailed, callHistory>>
    /\ UNCHANGED <<controlVars, descVars, notifyVars, bufferVars, glVars>>

\* Format::Size: the consumer sets the frame size of the format it will
\* pass to Capture::Create; sizeBytes is Size.x * 4 * Size.y.
Configure(bytes) ==
    /\ sess = "none"
    /\ bytes \in 1..MaxBytes
    /\ bytes # sizeBytes
    /\ sizeBytes' = bytes
    /\ UNCHANGED <<registryVars, sessionVars, threadVars, backendVars, historyVars>>
    /\ UNCHANGED <<controlVars, descVars, notifyVars, capacity, allocs, lastCopy, glVars>>

\* OnSample creating a surface for every sample.
NeedsAlloc_Always(cap, len) == TRUE

\* OnSample: if ( !surface || allocatedSurfaceBytes < bmpLength ), the
\* capacity of an empty slot being 0.
NeedsAlloc(cap, len) == cap = 0 \/ cap < len

\* OnSample in software mode taken whole for a buffer of `len` bytes: the
\* write slot's surface is created with the configured size when needed,
\* `len` bytes are copied into it and the indices are swapped.
SoftwareSample(len) ==
    /\ sess = "live"
    /\ ~format.hw
    /\ previewing
    /\ capPc = "idle"
    /\ lastCopy.n < MaxCopies
    /\ len \in 1..(MaxBytes + 1)
    /\ LET alloc == NeedsAlloc(capacity[writeIndex], len)
           cap   == IF alloc THEN sizeBytes ELSE capacity[writeIndex]
       IN  /\ capacity' = [capacity EXCEPT ![writeIndex] = cap]
           /\ allocs' = [allocs EXCEPT ![writeIndex] = IF alloc THEN @ + 1 ELSE @]
           /\ lastCopy' = [n |-> lastCopy.n + 1, len |-> len, cap |-> cap,
                           lens |-> lastCopy.lens \cup {len}]
    /\ lastFrame' = NextFrame(lastFrame)
    /\ surfaces' = [surfaces EXCEPT ![writeIndex] = lastFrame']
    /\ readIndex' = writeIndex
    /\ writeIndex' = readIndex
    /\ swappedSince' = TRUE
    /\ quietGets' = 0
    /\ UNCHANGED <<registryVars, sess, format, isInitialized, isStarted, hasNewFrame,
                   sharedTextures, threadVars, backendVars>>
    /\ UNCHANGED <<emitted, calls, errs, lastCall, lastRet, assertFailed, callHistory>>
    /\ UNCHANGED <<controlVars, descVars, notifyVars, sizeBytes, glVars>>

\* ------------------------------------------------------------------------
\* The consumer's polling calls
\* ------------------------------------------------------------------------

\* The getters answering with the write slot.
Returned_WriteSlot == [slot |-> writeIndex, surface |-> surfaces[writeIndex],
                       texture |-> sharedTextures[writeIndex].frame]

\* What GetSurface and GetTexture return: the read slot.
Returned == [slot |-> readIndex, surface |-> surfaces[readIndex],
             texture |-> sharedTextures[readIndex].frame]

\* GetSurface that also flips the indices (a consumer-side swap).
GetSurface_Flipping ==
    /\ sess = "live"
    /\ ~reading
    /\ hasNewFrame' = FALSE
    /\ lastRet' = Returned
    /\ readIndex' = writeIndex
    /\ writeIndex' = readIndex
    /\ swappedSince' = FALSE
    /\ quietGets' = IF quietGets = 0 THEN 1 ELSE 2
    /\ UNCHANGED <<registryVars, sess, format, isInitialized, isStarted, surfaces,
                   sharedTextures, pc, capPc, capSlot, capTmp, reading, readSlot,
                   leases, queue, backendVars>>
    /\ UNCHANGED <<emitted, lastFrame, calls, errs, lastCall, assertFailed, callHistory>>
    /\ UNCHANGED <<controlVars, descVars, notifyVars, bufferVars, glVars>>

\* GetSurface; the consumer then uses the surface when it is not null.
GetSurface ==
    /\ sess = "live"
    /\ ~reading
    /\ hasNewFrame' = FALSE
    /\ lastRet' = Returned
    /\ IF surfaces[readIndex] # NullSurface
       THEN reading' = TRUE /\ readSlot' = readIndex
       ELSE UNCHANGED <<reading, readSlot>>
    /\ swappedSince' = FALSE
    /\ quietGets' = IF quietGets = 0 THEN 1 ELSE 2
    /\ UNCHANGED <<registryVars, sess, format, isInitialized, isStarted, readIndex,
                   writeIndex, surfaces, sharedTextures, pc, capPc, capSlot, capTmp,
                   leases, queue, backendVars>>
    /\ UNCHANGED <<emitted, lastFrame, calls, errs, lastCall, assertFailed, callHistory>>
    /\ UNCHANGED <<controlVars, descVars, notifyVars, bufferVars, glVars>>

\* The consumer is done with the surface.
SurfaceDone ==
    /\ reading
    /\ reading' = FALSE
    /\ readSlot' = 0
    /\ UNCHANGED <<registryVars, sessionVars, pc, capPc, capSlot, capTmp,
                   leases, queue, backendVars, historyVars>>
    /\ UNCHANGED <<controlVars, descVars, notifyVars, bufferVars, glVars>>

\* SharedTexture::Lock, wglDXLockObjectsNV answering lockOk.
Lock(tex, lockOk) == [tex EXCEPT !.locked = lockOk]

\* SharedTexture::Unlock, wglDXUnlockObjectsNV answering unlockOk.
Unlock(tex, unlockOk) == [tex EXCEPT !.locked = IF unlockOk THEN FALSE ELSE tex.locked]

\* DXGIRenderPathFrameLease::IsValid: ToTexture ( ) != nullptr, the GL
\* texture of the SharedTexture the lease holds, whatever Lock ( ) returned.
IsValid(tex, locked) == tex.alloc

\* GetTexture: the new DXGIRenderPathFrameLease locks the read slot's texture.
GetTexture(lockOk) ==
    /\ sess = "live"
    /\ leases[0] + leases[1] < MaxLeases
    /\ hasNewFrame' = FALSE
    /\ lastRet' = Returned
    /\ IF sharedTextures[readIndex].alloc
       THEN /\ assertFailed' = (assertFailed \/ sharedTextures[readIndex].locked)
            /\ sharedTextures' = [sharedTextures EXCEPT
                                    ![readIndex] = Lock(@, lockOk)]
            /\ leases' = [leases EXCEPT ![readIndex] = @ + 1]
       ELSE UNCHANGED <<assertFailed, sharedTextures, leases>>
    /\ lastLease' = [made |-> TRUE, slot |-> readIndex,
                     texture |-> sharedTextures[readIndex].alloc,
                     locked |-> sharedTextures'[readIndex].locked,
                     valid |-> IsValid(sharedTextures[readIndex],
                                       sharedTextures'[readIndex].locked)]
    /\ swappedSince' = FALSE
    /\ quietGets' = IF quietGets = 0 THEN 1 ELSE 2
    /\ UNCHANGED <<registryVars, sess, format, isInitialized, isStarted, readIndex,
                   writeIndex, surfaces, pc, capPc, capSlot, capTmp, reading, readSlot,
                   queue, backendVars>>
    /\ UNCHANGED <<emitted, lastFrame, calls, errs, lastCall, lastList, lastCreate>>
    /\ UNCHANGED <<controlVars, descVars, notifyVars, bufferVars, glVars>>

\* ~DXGIRenderPathFrameLease
ReleaseLease(s, unlockOk) ==
    /\ leases[s] > 0
    /\ leases' = [leases EXCEPT ![s] = @ - 1]
    /\ IF sharedTextures[s].locked
       THEN sharedTextures' = [sharedTextures EXCEPT ![s] = Unlock(@, unlockOk)]
       ELSE UNCHANGED sharedTextures
    /\ UNCHANGED <<registryVars, sess, format, isInitialized, isStarted, hasNewFrame,
                   readIndex, writeIndex, surfaces, pc, capPc, capSlot, capTmp, reading,
                   readSlot, queue, backendVars, historyVars>>
    /\ UNCHANGED <<controlVars, descVars, notifyVars, bufferVars, glVars>>

\* The thread that will destroy the session makes a GL context current or
\* loses it (wglGetCurrentContext, as ~SharedTexture will find it).
SetGLContext(current) ==
    /\ sess # "crashed"
    /\ current # glCurrent
    /\ glCurrent' = current
    /\ UNCHANGED <<registryVars, sessionVars, threadVars, backendVars, historyVars>>
    /\ UNCHANGED <<controlVars, descVars, notifyVars, bufferVars, interopCalls>>

\* ------------------------------------------------------------------------
\* The consumer's use of the controls, and the camera attached
\* ------------------------------------------------------------------------

\* The camera the process finds attached when it starts: which of its
\* properties answer InitState's queries, and their current values.
AttachCamera(support, values) ==
    /\ sess = "none"
    /\ lastCreate.result = "none"
    /\ ksSupport = [k \in Keys |-> "ok"]
    /\ ksValue = [k \in Keys |-> DeviceMin]
    /\ <<support, values>> # <<ksSupport, ksValue>>
    /\ ksSupport' = support
    /\ ksValue' = values
    /\ UNCHANGED <<controls, lastControl>>
    /\ UNCHANGED <<registryVars, sessionVars, threadVars, backendVars, historyVars, descVars>>
    /\ UNCHANGED <<notifyVars, bufferVars, glVars>>

\* Control::Value ( value ) -> ControlMSW::StoreValue on a listed control.
SetValue(k, value, writeOk) ==
    /\ sess = "live"
    /\ controls[k].listed
    /\ controls' = [controls EXCEPT ![k].value = StoreValue(value, writeOk)]
    /\ ksValue' = [ksValue EXCEPT ![k] = DeviceAfterSet(@, value, writeOk)]
    /\ lastControl' = [op |-> "set", key |-> k, arg |-> value, ok |-> writeOk]
    /\ UNCHANGED ksSupport
    /\ UNCHANGED <<registryVars, sessionVars, threadVars, backendVars, historyVars, descVars>>
    /\ UNCHANGED <<notifyVars, bufferVars, glVars>>

\* ControlMSW::LoadValue on a listed control.
ReadValue(k, readOk) ==
    /\ sess = "live"
    /\ controls[k].listed
    /\ controls' = [controls EXCEPT ![k].value = LoadValue(ksValue[k], readOk)]
    /\ lastControl' = [op |-> "load", key |-> k, arg |-> 0, ok |-> readOk]
    /\ UNCHANGED <<ksSupport, ksValue>>
    /\ UNCHANGED <<registryVars, sessionVars, threadVars, backendVars, historyVars, descVars>>
    /\ UNCHANGED <<notifyVars, bufferVars, glVars>>

\* ------------------------------------------------------------------------
\* Specification
\* ------------------------------------------------------------------------

Init ==
    /\ present \in SUBSET Devices
    /\ kCaptureDevices = <<>>
    /\ devEmitted = <<>>
    /\ hotplugs = 0
    /\ kNumMediaFoundationInstances = 0
    /\ kInteropContext = NoContext
    /\ others = {}
    /\ sess = "none"
    /\ format = [hw |-> TRUE, auto |-> TRUE]
    /\ isInitialized = FALSE
    /\ isStarted = FALSE
    /\ hasNewFrame = FALSE
    /\ readIndex = 0
    /\ writeIndex = 1
    /\ surfaces = [s \in Slots |-> NullSurface]
    /\ sharedTextures = [s \in Slots |-> NoTexture]
    /\ pc = [t \in Threads |-> "idle"]
    /\ capPc = "idle"
    /\ capSlot = 0
    /\ capTmp = 0
    /\ reading = FALSE
    /\ readSlot = 0
    /\ leases = [s \in Slots |-> 0]
    /\ queue = <<>>
    /\ evInitPending = FALSE
    /\ bePending = <<>>
    /\ previewing = FALSE
    /\ cmdLog = <<>>
    /\ lostReports = 0
    /\ emitted = <<>>
    /\ lastFrame = NullSurface
    /\ lastCall = "none"
    /\ calls = 0
    /\ errs = 0
    /\ swappedSince = FALSE
    /\ quietGets = 0
    /\ lastRet = [slot |-> 0, surface |-> NullSurface, texture |-> NullSurface]
    /\ assertFailed = FALSE
    /\ lastList = [n |-> 0, refresh |-> FALSE, queried |-> FALSE, result |-> <<>>]
    /\ lastLease = [made |-> FALSE, slot |-> 0, texture |-> FALSE, locked |-> FALSE,
                    valid |-> FALSE]
    /\ lastCreate = [hw |-> FALSE, failed |-> "none", result |-> "none",
                     interopValid |-> TRUE, allocated |-> FALSE]
    /\ ksSupport = [k \in Keys |-> "ok"]
    /\ ksValue = [k \in Keys |-> DeviceMin]
    /\ controls = NoControls
    /\ lastControl = [op |-> "none", key |-> "none", arg |-> 0, ok |-> TRUE]
    /\ compared = Comparison(EmptyDescriptor, EmptyDescriptor)
    /\ notify = NotifyIdle
    /\ sizeBytes = MaxBytes
    /\ capacity = [s \in Slots |-> 0]
    /\ allocs = [s \in Slots |-> 0]
    /\ lastCopy = [n |-> 0, len |-> 0, cap |-> 0, lens |-> {}]
    /\ glCurrent = TRUE
    /\ interopCalls = <<>>

\* The backend call that fails during a construction, if any: the calls
\* after the first failure are never made.
Faults == {"none", "engine", "activate", "interop_device", "interop_handle",
           "texture", "init"}

InteropOf(fault) ==
    CASE fault = "interop_device" -> "no_device"
      [] fault = "interop_handle" -> "no_handle"
      [] OTHER -> "ok"

CreateAny ==
    \E hw, auto \in BOOLEAN, dev \in Devices \cup {NoDevice}, fault \in Faults :
        Create(hw, auto, dev, fault # "engine", fault # "activate", InteropOf(fault),
               fault # "texture", fault # "init")

\* The constructions as the Device Registry sees them: the engine is or is not
\* created, the device is or is not resolved.
CreateListing ==
    \E hw \in BOOLEAN, dev \in Devices \cup {NoDevice},
       fault \in {"none", "engine", "activate"} :
        Create(hw, TRUE, dev, fault # "engine", fault # "activate", "ok", TRUE, TRUE)

CreateOtherAny ==
    \E hw \in BOOLEAN, id \in Owners, dev \in Devices \cup {NoDevice}, fault \in Faults :
        CreateOther(id, hw, dev, fault # "engine", fault # "activate", InteropOf(fault),
                    fault # "texture", fault # "init")

StartSteps ==
    \/ \E t \in Threads : Start_CheckInitialized(t)
    \/ \E t \in Threads : Start_CheckStarted(t)
    \/ \E t \in Threads : Start_Store(t)
    \/ \E t \in Threads : Start_Preview(t)

StopSteps ==
    \/ CallStop
    \/ Stop_CheckStopped
    \/ Stop_Store
    \/ Stop_Preview

Events ==
    \/ \E sinkOk \in BOOLEAN : OnEvent_Initialized(sinkOk)
    \/ OnEvent_PreviewStarted
    \/ OnEvent_PreviewStopped
    \/ \E status \in Status : OnEvent_Error(status)

Tasks ==
    \/ Task_Initialize
    \/ Task_Start
    \/ Task_Stop
    \/ Task_DeviceLost
    \/ Task_Error
    \/ Task_Dangling

Frames ==
    \/ \E res \in {"ok", "no_buffer", "not_dxgi", "no_resource", "not_contiguous",
                   "lock_failed"} : OnSample_Begin(res)
    \/ OnSample_Copy
    \/ \E first \in {"read", "write"} : OnSample_SwapFirst(first)
    \/ OnSample_SwapSecond
    \/ GetSurface
    \/ SurfaceDone
    \/ \E lockOk \in BOOLEAN : GetTexture(lockOk)
    \/ \E s \in Slots, unlockOk \in BOOLEAN : ReleaseLease(s, unlockOk)

Registry ==
    \/ \E refresh \in BOOLEAN : ListDevices(refresh)
    \/ \E d \in Devices : OnDeviceNotify(d)

Sessions ==
    \/ CreateOtherAny
    \/ \E id \in Owners : DestroyOther(id)

Controls ==
    \/ \E support \in [Keys -> Outcomes], values \in [Keys -> DeviceMin..DeviceMax] :
          AttachCamera(support, values)
    \/ \E k \in Keys, value \in Requests, writeOk \in BOOLEAN : SetValue(k, value, writeOk)
    \/ \E k \in Keys, readOk \in BOOLEAN : ReadValue(k, readOk)

Comparisons == \E a, b \in Descriptors : Compare(a, b)

\* The whole program.
Next == CreateAny \/ Destroy \/ CallStart \/ StartSteps \/ StopSteps \/ Events
        \/ Tasks \/ Frames \/ Registry \/ Sessions \/ Controls
        \/ Comparisons

Spec == Init /\ [][Next]_vars

\* The parts of the program that share no state but the session's existence
\* are explored one at a time, each from the program's initial state.
AllPresent == Init /\ present = Devices

\* Lifecycle: construction, Start/Stop, backend events, main-queue tasks.
NextLifecycle == CreateAny \/ Destroy \/ CallStart \/ StartSteps \/ StopSteps
                 \/ Events \/ Tasks
SpecLifecycle == AllPresent /\ [][NextLifecycle]_vars

\* Frame path: a session brought to streaming, OnSample against the getters.
NextFrames == CreateAny \/ (\E sinkOk \in BOOLEAN : OnEvent_Initialized(sinkOk))
              \/ StartSteps \/ Frames
SpecFrames == AllPresent /\ [][NextFrames]_vars

\* Device Registry: enumeration, hot-plug, and the sessions' use of it.
NextRegistry == CreateListing \/ Destroy \/ Registry

\* Controls: the camera attached, construction, and the consumer's writes
\* and reads of the listed controls.
NextControls == CreateListing \/ Destroy \/ Controls
SpecControls == AllPresent /\ [][NextControls]_vars

\* Errors: an auto-started session that streams samples while the backend
\* reports errors other than device-invalidated.
OtherStatus == {"E_OTHER", "E_UNEXPECTED"}

NextErrors == CreateListing \/ OnEvent_Initialized(TRUE) \/ StartSteps
              \/ OnEvent_PreviewStarted
              \/ (\E status \in OtherStatus : OnEvent_Error(status))
              \/ Task_Initialize \/ Task_Start \/ Task_Error
              \/ OnSample_Begin("ok") \/ OnSample_Copy
              \/ (\E first \in {"read", "write"} : OnSample_SwapFirst(first))
              \/ OnSample_SwapSecond
SpecErrors == AllPresent /\ [][NextErrors]_vars

\* DeviceDescriptor's comparisons over every pair of descriptors.
NextDescriptors == Comparisons
SpecDescriptors == AllPresent /\ [][NextDescriptors]_vars

\* Auto-start: a session whose preview sink is available and whose device
\* stays, left to the backend and the main queue; the consumer may call Stop
\* but never Start.  The backend delivers its events, the main queue runs its
\* tasks and a call that was entered returns.
BackendSteps ==
    \/ OnEvent_Initialized(TRUE)
    \/ OnEvent_PreviewStarted
    \/ OnEvent_PreviewStopped
    \/ OnEvent_Error("E_OTHER")

MainQueueSteps == Task_Initialize \/ Task_Start \/ Task_Stop \/ Task_Error

CallSteps == StartSteps \/ Stop_CheckStopped \/ Stop_Store \/ Stop_Preview

NextAutoStart == CreateAny \/ BackendSteps \/ MainQueueSteps \/ CallSteps \/ CallStop
SpecAutoStart ==
    /\ AllPresent
    /\ [][NextAutoStart]_vars
    /\ WF_vars(OnEvent_Initialized(TRUE) \/ OnEvent_PreviewStarted
                 \/ OnEvent_PreviewStopped)
    /\ WF_vars(MainQueueSteps)
    /\ WF_vars(CallSteps)

\* Sessions of one process: their count and the shared interop context.
NextSessions == CreateAny \/ Destroy \/ Sessions
SpecSessions == Init /\ [][NextSessions]_vars
SpecRegistry == Init /\ [][NextRegistry]_vars

\* Surfaces: a software session of a configured size brought to streaming
\* and fed samples of every length.
NextSurfaces == (\E bytes \in 1..MaxBytes : Configure(bytes)) \/ CreateListing
                \/ OnEvent_Initialized(TRUE) \/ StartSteps
                \/ (\E len \in 1..(MaxBytes + 1) : SoftwareSample(len))
SpecSurfaces == AllPresent /\ [][NextSurfaces]_vars

\* Teardown: a session whose textures are leased and released, destroyed
\* with or without a current GL context.
NextTeardown == CreateAny \/ (\E lockOk \in BOOLEAN : GetTexture(lockOk))
                \/ (\E s \in Slots, unlockOk \in BOOLEAN : ReleaseLease(s, unlockOk))
                \/ (\E current \in BOOLEAN : SetGLContext(current)) \/ Destroy
SpecTeardown == AllPresent /\ [][NextTeardown]_vars

\* Refresh: the consumer lists the devices while the notification thread
\* rebuilds the cache.
NextRefresh == (\E r \in BOOLEAN : ListDevices(r)) \/ Refreshing
SpecRefresh == Init /\ [][NextRefresh]_vars

\* ------------------------------------------------------------------------
\* Properties
\* ------------------------------------------------------------------------

CountSig(log, sig)  == Cardinality({i \in 1..Len(log) : log[i].sig = sig})
CountTask(q, kind)  == Cardinality({i \in 1..Len(q) : q[i].kind = kind})
CountOf(log, x)     == Cardinality({i \in 1..Len(log) : log[i] = x})

\* Capture::Impl::CheckNewFrame
CheckNewFrame == hasNewFrame

\* C1: in every state of a live session, the intermediate points of the
\* per-sample swap included, the read index and the write index are the two
\* distinct values 0 and 1.
C1_IndicesDistinct ==
    sess = "live" => (readIndex # writeIndex /\ {readIndex, writeIndex} = Slots)

\* C2: the capture thread never copies into a slot while the consumer is
\* using the surface GetSurface returned for that slot, so the consumer never
\* sees a partially written frame.
C2_NoSlotWrittenWhileRead ==
    ~(capPc = "copy" /\ reading /\ readSlot = capSlot)

\* C3: CheckNewFrame() is true if and only if a sample has been written and
\* swapped in since the last GetSurface/GetTexture call (or since
\* construction).
C3_NewFrameIffSwapped ==
    (sess = "live" /\ capPc = "idle") => (CheckNewFrame <=> swappedSince)

TextureFrames == [s \in Slots |-> sharedTextures[s].frame]

\* C8: GetSurface and GetTexture clear the new-frame flag and leave the read
\* index, the write index and the contents of both slots unchanged, so a
\* getter call that follows another with no OnSample step in between returns
\* the same slot holding the same frame.
C8_GettersOnlyClearFlag ==
    /\ [](quietGets > 0 =>
            /\ ~hasNewFrame
            /\ lastRet.slot = readIndex
            /\ lastRet.surface = surfaces[readIndex]
            /\ lastRet.texture = sharedTextures[readIndex].frame)
    /\ [][(sess = "live" /\ quietGets' > 0) =>
            /\ readIndex' = readIndex
            /\ writeIndex' = writeIndex
            /\ surfaces' = surfaces
            /\ TextureFrames' = TextureFrames
            /\ (quietGets' = 2 => lastRet' = lastRet)]_vars

\* A second getter call in a row has returned a frame the capture thread wrote.
C8_Witness ==
    /\ quietGets = 2
    /\ lastRet.surface # NullSurface
    /\ reading

\* What a Start or Stop call may not touch when it is a no-op.
LifecycleState == <<isStarted, isInitialized, readIndex, writeIndex, hasNewFrame,
                    cmdLog, bePending, queue, emitted>>

\* Every Start (Stop) notification, delivered or on its way, answers a
\* StartPreview (StopPreview) command.
NotificationsAnswerCommands ==
    /\ CountSig(emitted, "Start") + CountTask(queue, "Start")
         + CountOf(bePending, "PREVIEW_STARTED") <= CountOf(cmdLog, "start")
    /\ CountSig(emitted, "Stop") + CountTask(queue, "Stop")
         + CountOf(bePending, "PREVIEW_STOPPED") <= CountOf(cmdLog, "stop")

\* C4: each device-invalidated report yields exactly one DeviceLost
\* notification; when its handler runs, and from then on, the started flag
\* and the initialized latch are false; the transition issues no
\* stop-streaming command and no Stop notification comes of it.
C4_DeviceLostTransition ==
    /\ [](sess = "live" =>
            /\ CountSig(emitted, "DeviceLost") + CountTask(queue, "DeviceLost")
                 = lostReports
            /\ (CountSig(emitted, "DeviceLost") > 0 => (~isStarted /\ ~isInitialized))
            /\ NotificationsAnswerCommands)
    /\ [][(sess = "live"
            /\ CountSig(emitted', "DeviceLost") > CountSig(emitted, "DeviceLost")) =>
            /\ ~isStarted' /\ ~isInitialized'
            /\ cmdLog' = cmdLog
            /\ bePending' = bePending
            /\ queue' = Tail(queue)]_vars

\* The device was lost while the session was started: one start command, no
\* stop command, and the DeviceLost handler has run.
C4_Witness ==
    /\ sess = "live"
    /\ cmdLog = <<"start">>
    /\ lostReports = 1
    /\ CountSig(emitted, "DeviceLost") = 1
    /\ ~isStarted

\* C5: once the backend has reported device-invalidated, the session issues
\* no further begin-streaming or stop-streaming command.
C5_NoCommandAfterLost ==
    [][LostReported => cmdLog' = cmdLog]_vars

\* C6: a Start() that finds the initialized latch unset (before the
\* engine-initialized event is handled, or after the device-lost transition)
\* issues no begin-streaming command and leaves the session not started; a
\* begin-streaming command is issued only with the latch set, by a call that
\* found the session not started.
C6_StartNeedsLatch ==
    /\ [](sess = "live" /\ ~isInitialized => ~isStarted)
    /\ [][\A t \in Threads :
            /\ (pc[t] = "Start_init" /\ ~isInitialized /\ pc'[t] # pc[t]) =>
                  (pc'[t] = "idle" /\ cmdLog' = cmdLog /\ ~isStarted')
            /\ (pc[t] = "Start_started" /\ isStarted /\ pc'[t] # pc[t]) =>
                  (pc'[t] = "idle" /\ cmdLog' = cmdLog)
            /\ (CountOf(cmdLog', "start") > CountOf(cmdLog, "start") /\ pc'[t] # pc[t]) =>
                  (pc[t] = "Start_cmd" /\ isInitialized)]_vars

\* The consumer's only call so far was a Start() made before the
\* engine-initialized event was handled; it did nothing.
C6_Witness ==
    /\ sess = "live"
    /\ evInitPending
    /\ calls = 1
    /\ lastCall = "Start_uninitialized"
    /\ ~isStarted
    /\ cmdLog = <<>>

\* C7: Start() on a started session and Stop() on a stopped session issue no
\* backend command, change no session state and cause no notification.
C7_Idempotent ==
    /\ [](sess = "live" => NotificationsAnswerCommands)
    /\ [][/\ (pc["main"] \in {"Start_init", "Start_started"} /\ isStarted
                /\ pc'["main"] # pc["main"]) =>
                  (pc'["main"] \in {"Start_started", "idle"}
                     /\ LifecycleState' = LifecycleState)
          /\ (pc["main"] = "Stop_check" /\ ~isStarted /\ pc'["main"] # pc["main"]) =>
                  (pc'["main"] = "idle" /\ LifecycleState' = LifecycleState)]_vars

\* A Start() on a started session has returned, and a Stop() on a stopped
\* session is about to.
C7_Witness ==
    /\ lastCall = "Start_already"
    /\ pc["main"] = "Stop_check"
    /\ ~isStarted

\* C9: every Initialize, Start, Stop, Error and DeviceLost notification is
\* emitted by a task of the main queue, never on the backend's event thread.
C9_EmitOnMainQueue ==
    \A i \in 1..Len(emitted) : emitted[i].thread = "main"

\* Initialize, Start, Stop and an error-path notification have been delivered.
C9_Witness ==
    /\ \A sig \in {"Initialize", "Start", "Stop"} : CountSig(emitted, sig) > 0
    /\ CountSig(emitted, "Error") + CountSig(emitted, "DeviceLost") > 0

\* C10: DeviceAdded and DeviceRemoved are emitted on the main queue, never
\* on the device-change notification thread.
C10_DeviceSignalsOnMainQueue ==
    \A i \in 1..Len(devEmitted) : devEmitted[i].thread = "main"

\* The notifications a hot-plug step taking the devices from old to new
\* should make: DeviceRemoved for old \ new, DeviceAdded for new \ old.
ExpectedDiff(old, new) ==
    {[sig |-> "DeviceRemoved", arg |-> d] : d \in old \ new}
        \cup {[sig |-> "DeviceAdded", arg |-> d] : d \in new \ old}

\* C11: a hot-plug event taking the present devices from Old to New emits
\* exactly one DeviceRemoved for each device in Old \ New, exactly one
\* DeviceAdded for each device in New \ Old, and nothing else, whatever
\* ListDevices calls, constructions and hot-plug events came before.
C11_DiffExact ==
    [][hotplugs' # hotplugs =>
         LET made == SubSeq(devEmitted', Len(devEmitted) + 1, Len(devEmitted'))
         IN  /\ Len(made) = Cardinality(ExpectedDiff(present, present'))
             /\ {[sig |-> made[i].sig, arg |-> made[i].arg] : i \in 1..Len(made)}
                  = ExpectedDiff(present, present')]_vars

\* C12: ListDevices queries the backend when and only when the cache is
\* empty or forceRefresh is true; when it queries, the cache becomes exactly
\* the query's result, otherwise the cache is left as it was; the call
\* returns the cache.
C12_ListDevicesCache ==
    [][lastList'.n # lastList.n =>
         /\ lastList'.queried <=> (kCaptureDevices = <<>> \/ lastList'.refresh)
         /\ lastList'.queried => kCaptureDevices' = Enumerate(present)
         /\ ~lastList'.queried => kCaptureDevices' = kCaptureDevices
         /\ lastList'.result = kCaptureDevices']_vars

\* ListDevices(false) answered from a non-empty cache, without a query.
C12_Witness ==
    /\ lastList.n > 0
    /\ ~lastList.refresh
    /\ ~lastList.queried
    /\ lastList.result # <<>>
    /\ lastList.result = kCaptureDevices

\* The session objects alive between two steps.
LiveSessions == (IF sess = "live" THEN 1 ELSE 0) + Cardinality(others)

\* C13: the process-wide session count equals the number of live session
\* objects; the interop context exists only while sessions are alive, comes
\* into being only in the construction of a hardware session that got as
\* far as the interop set-up when none existed, is left unchanged by every
\* later step (further initialisations included) and is destroyed exactly
\* when the count drops to zero.
C13_InteropLifetime ==
    /\ [](sess # "crashed" =>
            /\ kNumMediaFoundationInstances = LiveSessions
            /\ (kInteropContext.exists => kNumMediaFoundationInstances > 0))
    /\ [][sess' # "crashed" =>
            /\ (~kInteropContext.exists /\ kInteropContext'.exists) =>
                  (lastCreate'.hw /\ lastCreate'.failed \notin {"engine", "device"})
            /\ (kInteropContext.exists /\ kInteropContext' # kInteropContext) =>
                  (kInteropContext' = NoContext /\ kNumMediaFoundationInstances' = 0)
            /\ (kNumMediaFoundationInstances > 0 /\ kNumMediaFoundationInstances' = 0) =>
                  kInteropContext' = NoContext]_vars

\* Two sessions alive; the hardware session modelled in full was constructed
\* when a further session had already created the interop context.
C13_Witness ==
    /\ sess = "live"
    /\ format.hw
    /\ kNumMediaFoundationInstances = 2
    /\ kInteropContext.exists
    /\ kInteropContext.by # 0

\* C14: a construction ends with a valid session exactly when nothing
\* failed (engine created, device resolved, in hardware mode both shared
\* textures allocated, initialisation accepted); every failure ends with an
\* invalid session and a null handle from Create, and in no other way.
C14_FailureMeansInvalid ==
    lastCreate.result # "none" =>
        /\ lastCreate.result \in {"valid", "null"}
        /\ (lastCreate.result = "valid" <=> lastCreate.failed = "none")
        /\ sess # "crashed"

C16_LockedWhileLeased ==
    [][\A s \in Slots :
         (sharedTextures[s].locked /\ leases[s] > 0 /\ leases'[s] > 0
            /\ sharedTextures'[s].alloc)
         => sharedTextures'[s].locked]_vars

\* C17: the lease GetTexture returns is invalid whenever the read slot holds
\* no shared texture or the attempt to lock the texture failed.
C17_InvalidLease ==
    lastLease.made =>
        ((~lastLease.texture \/ ~lastLease.locked) => ~lastLease.valid)

\* OnSample has handled a sample to its end at least once in software mode:
\* a surface exists, and if only one exists the swap that follows its copy
\* is not still in progress.
FirstSampleHandled ==
    /\ \E s \in Slots : surfaces[s] # NullSurface
    /\ \/ \A s \in Slots : surfaces[s] # NullSurface
       \/ capPc \notin {"swap", "swap_write", "swap_read"}

C19_NoEmitAfterDestroy == \A i \in 1..Len(emitted) : emitted[i].alive

\* C20: destroying the session after a DeviceLost notification, in the
\* handler or one main-queue cycle later, never enters Stop and never issues
\* a stop-streaming command: the destruction leaves the command log, both
\* threads' positions and the consumer's call count as they were.
C20_DestroyAfterLostNeverStops ==
    [][(sess = "live" /\ sess' = "destroyed" /\ CountSig(emitted, "DeviceLost") > 0)
         => (cmdLog' = cmdLog /\ pc' = pc /\ calls' = calls /\ lastCall' = lastCall)]_vars

\* A started session lost its device, delivered DeviceLost and was then
\* destroyed: one start command and no stop command were ever issued.
C20_Witness ==
    /\ sess = "destroyed"
    /\ Len(emitted) > 0
    /\ emitted[Len(emitted)].sig = "DeviceLost"
    /\ emitted[Len(emitted)].alive
    /\ cmdLog = <<"start">>
    /\ queue = <<>>

\* C21: every control in the list GetControls exposes is supported, and a
\* property whose basic-support query or default-values query fails is not
\* in the list.
C21_ListedAreSupported ==
    \A k \in Keys :
        controls[k].listed =>
            /\ controls[k].supported
            /\ ksSupport[k] \notin {"no_basic", "no_default"}

\* A session on a camera whose Zoom fails the default-values query: Brightness
\* is listed, Zoom is not.
C21_Witness ==
    /\ sess = "live"
    /\ ksSupport["Zoom"] = "no_default"
    /\ controls["Brightness"].listed
    /\ ~controls["Zoom"].listed

\* A SetValue step / a LoadValue step of a live session.
SetStep ==
    /\ sess = "live" /\ sess' = "live"
    /\ lastControl'.op = "set"
    /\ <<controls, ksValue, lastControl>>' # <<controls, ksValue, lastControl>>

LoadStep ==
    /\ sess = "live" /\ sess' = "live"
    /\ lastControl'.op = "load"
    /\ <<controls, ksValue, lastControl>>' # <<controls, ksValue, lastControl>>

C30_FailureChangesNothing ==
    [][((SetStep \/ LoadStep) /\ ~lastControl'.ok)
         => /\ controls' = controls
            /\ <<isInitialized, isStarted>>' = <<isInitialized, isStarted>>]_vars

\* What an error other than device-invalidated must leave alone.
ErrorUntouched ==
    <<sess, isStarted, isInitialized, readIndex, writeIndex, surfaces, sharedTextures,
      capPc, capSlot, previewing, cmdLog, lostReports>>

\* C23: a backend error event with a status other than device-invalidated
\* queues exactly one Error task carrying that status, the task emits exactly
\* one Error notification with it, neither step changes the started flag, the
\* initialized latch, the indices or the validity, and a streaming session
\* goes on accepting samples.
C23_ErrorIsOnlyReported ==
    /\ [][(errs' # errs /\ lostReports' = lostReports) =>
            /\ \E status \in OtherStatus : queue' = Append(queue, Task("Error", status))
            /\ emitted' = emitted
            /\ ErrorUntouched' = ErrorUntouched]_vars
    /\ [][(sess = "live" /\ queue # <<>> /\ queue' = Tail(queue)
             /\ Head(queue).kind = "Error") =>
            /\ emitted' = Append(emitted, [sig |-> "Error", arg |-> Head(queue).arg,
                                           thread |-> "main", alive |-> TRUE])
            /\ ErrorUntouched' = ErrorUntouched]_vars
    /\ [](sess = "live" =>
            CountSig(emitted, "Error") + CountTask(queue, "Error") = errs - lostReports)
    /\ []((sess = "live" /\ previewing /\ capPc = "idle") => ENABLED OnSample_Begin("ok"))

\* The Error notification has been delivered to a started session, and the
\* first sample after it is being swapped in.
C23_Witness ==
    /\ sess = "live"
    /\ isStarted
    /\ CountSig(emitted, "Error") = 1
    /\ emitted[Len(emitted)].arg = "E_UNEXPECTED"
    /\ lastFrame = 1
    /\ capPc \in {"swap_write", "swap_read"}
    /\ \E s \in Slots : (IF format.hw THEN sharedTextures[s].frame ELSE surfaces[s]) = 1

\* The lexicographic order on (name, id).
LexLess(a, b) == a.Name < b.Name \/ (a.Name = b.Name /\ a.ID < b.ID)

\* C24: DeviceDescriptor's < is the lexicographic order on (name, id) and,
\* with ==, is a trichotomy: for two descriptors exactly one of a < b, b < a,
\* a == b holds.
C24_LessIsLexicographic ==
    /\ compared.lt <=> LexLess(compared.a, compared.b)
    /\ Cardinality({r \in {"lt", "gt", "eq"} : compared[r]}) = 1

C26_NoCopyIntoLockedTexture ==
    ~(format.hw /\ capPc = "copy" /\ leases[capSlot] > 0
        /\ sharedTextures[capSlot].locked)

\* C27: for every sequence of GetTexture calls, lease releases and sample
\* swaps, the assertions of SharedTexture::Lock and Unlock hold: Lock is never
\* called on a texture that is already locked, Unlock never on one that is
\* not.
C27_LockAssertionsHold == ~assertFailed

\* C28: the begin-streaming and stop-streaming commands sent to the backend
\* strictly alternate, beginning with begin-streaming, for every interleaving
\* of the consumer's Start/Stop calls with the auto-start on the event thread.
C28_CommandsAlternate ==
    \A i \in 1..Len(cmdLog) :
        cmdLog[i] = IF i % 2 = 1 THEN "start" ELSE "stop"

\* C29: when the GPU interop context is invalid, the construction of a
\* hardware-accelerated session detects it and ends as an invalid session,
\* without using the context's device or handle to allocate shared textures.
C29_InvalidInteropDetected ==
    (lastCreate.hw /\ ~lastCreate.interopValid) =>
        /\ lastCreate.result = "null"
        /\ ~lastCreate.allocated

C32_NoPartialList ==
    [][(notify.pc # "idle" /\ lastList'.n # lastList.n)
        => lastList'.result \in {notify.previous, Enumerate(present)}]_vars

\* C33: constructing a capture session, the resolution of its device from
\* the descriptor included, leaves the cached device list as it was.
C33_ConstructionKeepsCache ==
    [][(sess = "none" /\ sess' = "live") => kCaptureDevices' = kCaptureDevices]_vars

C35_CopyFitsSurface == lastCopy.len <= lastCopy.cap

\* C36: in software mode a slot's surface is created only when the slot is
\* empty or smaller than the incoming length, and while all samples had one
\* length that fits the configured size each slot was allocated at most once.
C36_AllocatesOnlyWhenNeeded ==
    /\ [][\A s \in Slots :
            allocs'[s] # allocs[s] => capacity[s] = 0 \/ capacity[s] < lastCopy'.len]_vars
    /\ []((Cardinality(lastCopy.lens) <= 1 /\ \A l \in lastCopy.lens : l <= sizeBytes)
            => \A s \in Slots : allocs[s] <= 1)

C36_Witness ==
    /\ lastCopy.n = MaxCopies
    /\ lastCopy.lens = {1}
    /\ sizeBytes = MaxBytes
    /\ \A s \in Slots : allocs[s] = 1 /\ capacity[s] = sizeBytes

\* The Start and Stop notifications of a log of emissions, of the main queue
\* and of the events the backend has still to deliver, as one sequence.
Lifecycle == {"Start", "Stop"}
EmittedLifecycle ==
    LET l == SelectSeq(emitted, LAMBDA e : e.sig \in Lifecycle)
    IN  [i \in 1..Len(l) |-> l[i].sig]
QueuedLifecycle ==
    LET q == SelectSeq(queue, LAMBDA t : t.kind \in Lifecycle)
    IN  [i \in 1..Len(q) |-> q[i].kind]
PendingLifecycle ==
    [i \in 1..Len(bePending) |->
        IF bePending[i] = "PREVIEW_STARTED" THEN "Start" ELSE "Stop"]
CommandedLifecycle ==
    [i \in 1..Len(cmdLog) |-> IF cmdLog[i] = "start" THEN "Start" ELSE "Stop"]

\* C37: each preview-started event yields exactly one Start notification and
\* each preview-stopped event exactly one Stop notification, in the order
\* of the events: for a live session whose device is not lost, the
\* notifications emitted, then those queued, then the events to come are
\* the previews started and stopped, one for one and in their order; an
\* event step queues exactly one task behind the others and a notification
\* is emitted only by taking the task at the head of the queue.
C37_OneNotificationPerEventInOrder ==
    /\ []((sess = "live" /\ ~LostReported)
            => EmittedLifecycle \o QueuedLifecycle \o PendingLifecycle = CommandedLifecycle)
    /\ [][(sess = "live" /\ sess' = "live" /\ bePending # <<>>
           /\ bePending' = Tail(bePending))
            => queue' = Append(queue, Task(IF Head(bePending) = "PREVIEW_STARTED"
                                           THEN "Start" ELSE "Stop", "none"))]_vars
    /\ [][(sess = "live" /\ EmittedLifecycle' # EmittedLifecycle)
            => /\ queue # <<>> /\ queue' = Tail(queue)
               /\ EmittedLifecycle' = Append(EmittedLifecycle, Head(queue).kind)]_vars

C37_Witness ==
    /\ sess = "live" /\ ~LostReported
    /\ EmittedLifecycle = <<"Start">>
    /\ QueuedLifecycle = <<"Stop", "Start">>

\* Positions of the wglDX call `call` on the texture of slot s.
CallsAt(log, s, call) == {i \in 1..Len(log) : log[i] = [slot |-> s, call |-> call]}

\* C38: a shared texture destroyed while a GL context is current is unlocked
\* first if it is locked and then unregistered; destroyed with no GL context
\* current, it is neither unlocked nor unregistered.
C38_TextureTeardown ==
    [][(sess = "live" /\ sess' = "destroyed") =>
        IF glCurrent
        THEN \A s \in Slots :
                LET unlocks     == CallsAt(interopCalls', s, "unlock")
                    unregisters == CallsAt(interopCalls', s, "unregister")
                IN  /\ Cardinality(unregisters) = IF sharedTextures[s].alloc THEN 1 ELSE 0
                    /\ Cardinality(unlocks) =
                          IF sharedTextures[s].alloc /\ sharedTextures[s].locked THEN 1 ELSE 0
                    /\ \A u \in unlocks, r \in unregisters : u < r
        ELSE interopCalls' = <<>>]_vars

C38_Witness ==
    /\ sess = "destroyed"
    /\ glCurrent
    /\ CallsAt(interopCalls, 0, "unlock") = {1}
    /\ CallsAt(interopCalls, 0, "unregister") = {2}
    /\ CallsAt(interopCalls, 1, "unregister") = {3}

\* C39: the per-sample handler never waits for the consumer: in every state
\* of a live, streaming session a sample can be taken, and every step of the
\* handler that was begun, the index swap included, can be taken, whether or
\* not the new-frame flag is set, a surface is being read or a lease is
\* outstanding.
C39_OnSampleNeverWaits ==
    /\ (sess = "live" /\ previewing /\ capPc = "idle") => ENABLED OnSample_Begin("ok")
    /\ capPc = "copy" => ENABLED OnSample_Copy
    /\ capPc = "swap" => \A first \in {"read", "write"} : ENABLED OnSample_SwapFirst(first)
    /\ capPc \in {"swap_write", "swap_read"} => ENABLED OnSample_SwapSecond

C39_Witness ==
    /\ sess = "live"
    /\ capPc = "copy"
    /\ leases[capSlot] > 0
    /\ sharedTextures[capSlot].locked

====
